---- MODULE Spec2Model ----
(***************************************************************************)
(* A model of scripts/generate_coverage_badge.py: the coverage badge       *)
(* generator (CoverageBadgeGenerator) and the command around it (main),    *)
(* and of src/python_cicd_demo/main.py: add, subtract and calculate.       *)
(*                                                                         *)
(* Text is a sequence of characters (one-character strings; the German     *)
(* sharp s is the token "eszett").  A Python float is a binary64 value     *)
(* m * 2^e, its mantissa m kept as a little-endian sequence of bits, so    *)
(* that float(), *, int(), >= and the .0f format round as CPython does.    *)
(***************************************************************************)
EXTENDS Integers, Sequences, FiniteSets, TLC

(***************************************************************************)
(* Bounds of the model.                                                    *)
(***************************************************************************)
\* The most package elements a modelled coverage report nests.
MaxPackages == 2
\* The longest title (and value text) handed to the renderer directly.
MaxTitleLen == 15
\* The largest magnitude of an operand of add, subtract and calculate.
MaxOperand == 2

(***************************************************************************)
(* binary64 arithmetic on non-negative finite values.                      *)
(***************************************************************************)
\* Significand width of a Python float (IEEE-754 binary64).
MantissaBits == 53
\* Fraction bits produced by the long division of float(): a decimal of at
\* most four digits is above 2^-14, so 70 bits hold 56 significant ones.
DivisionBits == 70

RECURSIVE BitsOfNat(_)
\* The little-endian bits of a natural number, <<>> for 0.
BitsOfNat(n) ==
    IF n = 0 THEN <<>> ELSE <<n % 2>> \o BitsOfNat(n \div 2)

RECURSIVE NatOfBits(_)
\* The natural number of a little-endian bit sequence.
NatOfBits(b) ==
    IF b = <<>> THEN 0 ELSE Head(b) + 2 * NatOfBits(Tail(b))

RECURSIVE StripHigh(_)
\* b without its leading (high) zero bits.
StripHigh(b) ==
    IF b = <<>> THEN <<>>
    ELSE IF b[Len(b)] = 1 THEN b
    ELSE StripHigh(SubSeq(b, 1, Len(b) - 1))

RECURSIVE MulBits(_, _, _)
\* b * n + carry on bit sequences, n and carry small naturals.
MulBits(b, n, carry) ==
    IF b = <<>> THEN BitsOfNat(carry)
    ELSE LET t == Head(b) * n + carry
         IN  <<t % 2>> \o MulBits(Tail(b), n, t \div 2)

RECURSIVE Normalize(_, _)
\* The canonical form of m * 2^e: an odd mantissa, or zero.
Normalize(m, e) ==
    IF m = <<>> THEN [m |-> <<>>, e |-> 0]
    ELSE IF Head(m) = 0 THEN Normalize(Tail(m), e + 1)
    ELSE [m |-> m, e |-> e]

\* m * 2^e rounded to the nearest binary64, ties to even (the rounding of
\* every float operation of CPython).  Exponent range is never reached.
RoundToFloat(m0, e) ==
    LET m  == StripHigh(m0)
        sh == Len(m) - MantissaBits
    IN  IF sh <= 0 THEN Normalize(m, e)
        ELSE LET kept   == SubSeq(m, sh + 1, Len(m))
                 half   == m[sh]
                 sticky == \E i \in 1..(sh - 1) : m[i] = 1
                 up     == half = 1 /\ (sticky \/ kept[1] = 1)
             IN  Normalize(IF up THEN MulBits(kept, 1, 1) ELSE kept, e + sh)

\* float(n) of a small natural number (exact).
FloatOfInt(n) == Normalize(BitsOfNat(n), 0)

\* The float product d * n, n an int (converted exactly), rounded once.
FloatMulInt(d, n) == RoundToFloat(MulBits(d.m, n, 0), d.e)

RECURSIVE DivBits(_, _, _)
\* k fraction bits of r / den (r < den), most significant first, then a
\* sticky bit: 1 when the division has a remainder.
DivBits(r, den, k) ==
    IF k = 0 THEN <<IF r = 0 THEN 0 ELSE 1>>
    ELSE <<(2 * r) \div den>> \o DivBits((2 * r) % den, den, k - 1)

\* The sequence b reversed.
Reverse(b) == [i \in 1..Len(b) |-> b[Len(b) + 1 - i]]

\* The float nearest to num / den (float() of a decimal literal is
\* correctly rounded).
FloatOfRatio(num, den) ==
    LET frac == DivBits(num % den, den, DivisionBits)
    IN  RoundToFloat(Reverse(frac) \o BitsOfNat(num \div den),
                     0 - (DivisionBits + 1))

\* int(d): the integer part of a non-negative float.
FloatFloor(d) ==
    IF d.e >= 0 THEN NatOfBits([i \in 1..d.e |-> 0] \o d.m)
    ELSE IF 0 - d.e >= Len(d.m) THEN 0
    ELSE NatOfBits(SubSeq(d.m, 1 - d.e, Len(d.m)))

\* Whether the float is an integer.
FloatIsInt(d) == d.e >= 0

\* d >= n for a float d and an int n >= 0.
FloatGeInt(d, n) == FloatFloor(d) >= n

\* The integer nearest to d, ties to even: what the format spec .0f prints.
FloatRoundHalfEven(d) ==
    LET f == 0 - d.e
    IN  IF f <= 0 THEN FloatFloor(d)
        ELSE LET ip     == FloatFloor(d)
                 half   == IF f <= Len(d.m) THEN d.m[f] ELSE 0
                 sticky == \E i \in 1..Len(d.m) : i < f /\ d.m[i] = 1
                 \* above the half bit but below it in weight: f > Len(m)
                 low    == f > Len(d.m)
                 up     == half = 1 /\ (sticky \/ ip % 2 = 1)
             IN  IF low THEN 0 ELSE IF up THEN ip + 1 ELSE ip

(***************************************************************************)
(* Text.                                                                   *)
(***************************************************************************)
None == <<>>
Some(v) == <<v>>

DigitChars == <<"0", "1", "2", "3", "4", "5", "6", "7", "8", "9">>
LowerChars == <<"a", "b", "c", "d", "e", "f", "g", "h", "i", "j", "k", "l", "m",
                "n", "o", "p", "q", "r", "s", "t", "u", "v", "w", "x", "y", "z">>
UpperChars == <<"A", "B", "C", "D", "E", "F", "G", "H", "I", "J", "K", "L", "M",
                "N", "O", "P", "Q", "R", "S", "T", "U", "V", "W", "X", "Y", "Z">>

\* The set of the elements of a sequence.
Range(s) == {s[i] : i \in 1..Len(s)}

\* The index of c in the sequence s, c an element of s.
IndexOf(c, s) == CHOOSE i \in 1..Len(s) : s[i] = c

RECURSIVE Power10(_)
Power10(k) == IF k = 0 THEN 1 ELSE 10 * Power10(k - 1)

RECURSIVE DigitsValue(_)
\* The number a sequence of decimal digits writes.
DigitsValue(s) ==
    IF s = <<>> THEN 0
    ELSE 10 * DigitsValue(SubSeq(s, 1, Len(s) - 1))
         + (IndexOf(s[Len(s)], DigitChars) - 1)

RECURSIVE DigitsOf(_)
\* The decimal digits of a natural number, "0" for 0: str(n).
DigitsOf(n) ==
    IF n < 10 THEN <<DigitChars[n + 1]>>
    ELSE DigitsOf(n \div 10) \o <<DigitChars[(n % 10) + 1]>>

\* str.upper() of one character: a cased letter maps to its capital, the
\* sharp s to "SS", any other character to itself.
UpperChar(c) ==
    IF c \in Range(LowerChars) THEN <<UpperChars[IndexOf(c, LowerChars)]>>
    ELSE IF c = "eszett" THEN <<"S", "S">>
    ELSE <<c>>

RECURSIVE upper(_)
\* str.upper().
upper(s) == IF s = <<>> THEN <<>> ELSE UpperChar(Head(s)) \o upper(Tail(s))

\* float(s) for the literals the model reads: digits with at most one
\* decimal point parse, anything else here (the empty string, letters)
\* raises ValueError.  Signs, exponents, inf and nan are not modelled.
float(s) ==
    LET digits == SelectSeq(s, LAMBDA c : c \in Range(DigitChars))
        dots   == SelectSeq(s, LAMBDA c : c = ".")
        point  == IF dots = <<>> THEN Len(s) ELSE IndexOf(".", s)
        ok     == /\ Len(digits) + Len(dots) = Len(s)
                  /\ Len(dots) <= 1
                  /\ digits # <<>>
    IN  IF ok
        THEN [raised |-> None,
              value  |-> Some(FloatOfRatio(DigitsValue(digits),
                                           Power10(Len(s) - point)))]
        ELSE [raised |-> Some("ValueError"), value |-> None]

(***************************************************************************)
(* The inputs the model draws.                                             *)
(***************************************************************************)
\* line-rate attribute values: decimals, the empty string and a word.
Rate095 == <<"0", ".", "9", "5">>
Rate045 == <<"0", ".", "4", "5">>
Rate08 == <<"0", ".", "8">>
Rate06 == <<"0", ".", "6">>
Rate0796 == <<"0", ".", "7", "9", "6">>
Rate0575 == <<"0", ".", "5", "7", "5">>
Rate0 == <<"0">>
EmptyText == <<>>
WordText == <<"a", "b", "c">>

\* An attribute is None (absent) or Some(text).
RootAttrs == {None, Some(EmptyText), Some(Rate095)}
LoneRootAttrs == {Some(WordText), Some(Rate045), Some(Rate08), Some(Rate06),
                  Some(Rate0796), Some(Rate0575), Some(Rate0)}
PackageAttrs == {None, Some(EmptyText), Some(WordText), Some(Rate045),
                 Some(Rate095)}

\* The sequences over S of length at most n.
SeqsUpTo(S, n) == UNION {[1..k -> S] : k \in 0..n}

\* What the coverage file path holds: nothing, a file that cannot be read,
\* a file that is not XML, or a document: the root element's line-rate and
\* the line-rate of each package element below it, in document order.
NoDocument(kind) == [kind |-> kind, root |-> None, packages |-> <<>>]
Document(root, packages) == [kind |-> "xml", root |-> root, packages |-> packages]
CoverageFiles ==
    {NoDocument("missing"), NoDocument("unreadable"), NoDocument("malformed")}
    \cup {Document(r, ps) : r \in RootAttrs, ps \in SeqsUpTo(PackageAttrs, MaxPackages)}
    \cup {Document(r, <<>>) : r \in LoneRootAttrs}

\* The output path before the command runs: no file, a stale file, or a
\* stale file that cannot be opened for writing.  opens counts the times
\* the path was opened for writing (and so truncated).
OutputFiles ==
    {[exists |-> FALSE, writable |-> TRUE, content |-> None, opens |-> 0],
     [exists |-> TRUE, writable |-> TRUE, content |-> None, opens |-> 0],
     [exists |-> TRUE, writable |-> FALSE, content |-> None, opens |-> 0]}

CoveragePath == "coverage.xml"
OutputPath == "coverage-badge.svg"

DefaultTitle == <<"c", "o", "v", "e", "r", "a", "g", "e">>
TitlePattern == <<"c", "o", "v", "e", "r", "a", "g", "e", "-", "B", "r", "a",
                  "n", "c", "h", "eszett">>
\* The first n characters of the pattern, repeated as needed.
TitleOfLen(n) == [i \in 1..n |-> TitlePattern[((i - 1) % Len(TitlePattern)) + 1]]

StyleChoices == {"flat", "plastic", "for-the-badge"}
\* The options the command is run with besides the style: the defaults,
\* and a long mixed-case title with other thresholds.
CommandOptions ==
    {[title |-> DefaultTitle, min_good |-> 80, min_ok |-> 60],
     [title |-> TitleOfLen(MaxTitleLen), min_good |-> 58, min_ok |-> 57]}

(***************************************************************************)
(* The state.                                                              *)
(***************************************************************************)
VARIABLES
    pc,                \* the line the program is at
    args,              \* the arguments of the running operation
    coverage_xml,      \* file system: what the coverage file path holds
    badge_svg,         \* file system: the output path
    coverage_percent,  \* generate_badge's locals, None until assigned
    color,
    coverage_text,
    svg_content,
    exc,               \* the exception raised, None if none
    stdout,            \* the lines printed
    exit_code,         \* main's return value
    ret                \* the return value of a method called directly

vars == <<pc, args, coverage_xml, badge_svg, coverage_percent, color,
          coverage_text, svg_content, exc, stdout, exit_code, ret>>

(***************************************************************************)
(* CoverageBadgeGenerator._parse_coverage_xml                              *)
(***************************************************************************)
Raise(type, cause) == [raised |-> Some(type), cause |-> cause, value |-> None]
Return(value) == [raised |-> None, cause |-> "", value |-> Some(value)]

\* Python's truth value of dict.get's result: None and "" are false.
Truthy(attr) == attr # None /\ attr[1] # <<>>

\* float(text) * 100
Times100(text) ==
    LET f == float(text)
    IN  IF f.raised # None
        THEN Raise("ValueError", "could not convert string to float")
        ELSE Return(FloatMulInt(f.value[1], 100))

\* A variant of the loop that keeps the last package carrying a rate.
RECURSIVE PackageLoop_last(_)
PackageLoop_last(packages) ==
    IF packages = <<>>
    THEN Raise("ValueError", "Could not find coverage data in XML")
    ELSE LET package_line_rate == packages[Len(packages)]
         IN  IF Truthy(package_line_rate)
             THEN Times100(package_line_rate[1])
             ELSE PackageLoop_last(SubSeq(packages, 1, Len(packages) - 1))

RECURSIVE PackageLoop(_)
\* The loop over root.findall(".//package") and the raise after it.
PackageLoop(packages) ==
    IF packages = <<>>
    THEN Raise("ValueError", "Could not find coverage data in XML")
    ELSE LET package_line_rate == Head(packages)
         IN  IF Truthy(package_line_rate)
             THEN Times100(package_line_rate[1])
             ELSE PackageLoop(Tail(packages))

\* ET.parse(coverage_file): the file at the path, as the file system has it.
ET_parse(coverage_file) == coverage_xml

\* The body of the try statement.
ParseBody(coverage_file) ==
    LET tree == ET_parse(coverage_file)
    IN  CASE tree.kind = "missing" ->
                Raise("FileNotFoundError", "No such file or directory")
          [] tree.kind = "unreadable" ->
                Raise("PermissionError", "Permission denied")
          [] tree.kind = "malformed" ->
                Raise("ParseError", "syntax error")
          [] OTHER ->
                LET line_rate == tree.root
                IN  IF Truthy(line_rate)
                    THEN Times100(line_rate[1])
                    ELSE PackageLoop(tree.packages)

\* The exception types the except clause names.
CaughtTypes == {"ParseError", "ValueError", "FileNotFoundError"}

\* An exception: its type and what its message holds.
Exception(type, text, path, cause) ==
    [type |-> type, text |-> text, path |-> path, cause |-> cause]

\* The method: the try body, its caught errors raised again as RuntimeError.
_parse_coverage_xml(coverage_file) ==
    LET r == ParseBody(coverage_file)
    IN  IF r.raised = None
        THEN [raised |-> None, value |-> r.value]
        ELSE IF r.raised[1] \in CaughtTypes
        THEN [raised |-> Some(Exception("RuntimeError",
                                        "Error parsing coverage file",
                                        coverage_file, r.cause)),
              value |-> None]
        ELSE [raised |-> Some(Exception(r.raised[1], "", coverage_file, r.cause)),
              value |-> None]

(***************************************************************************)
(* CoverageBadgeGenerator._get_coverage_color                              *)
(***************************************************************************)
\* A variant of _get_coverage_color comparing with > where the code has >=.
_get_coverage_color_strict(coverage, min_good, min_ok) ==
    IF FloatGeInt(coverage, min_good) /\ coverage # FloatOfInt(min_good)
    THEN "brightgreen"
    ELSE IF FloatGeInt(coverage, min_ok) /\ coverage # FloatOfInt(min_ok)
    THEN "yellow"
    ELSE "red"

_get_coverage_color(coverage, min_good, min_ok) ==
    IF FloatGeInt(coverage, min_good) THEN "brightgreen"
    ELSE IF FloatGeInt(coverage, min_ok) THEN "yellow"
    ELSE "red"

(***************************************************************************)
(* Rendering.                                                              *)
(***************************************************************************)
\* int(len(text) * (font_size * 0.6)), in float arithmetic.
_calculate_text_width(text, font_size) ==
    LET char_width == FloatMulInt(FloatOfRatio(6, 10), font_size)
    IN  FloatFloor(FloatMulInt(char_width, Len(text)))

color_map ==
    [c \in {"brightgreen", "green", "yellow", "orange", "red", "lightgrey", "blue"} |->
        CASE c = "brightgreen" -> "#4c1"
          [] c = "green" -> "#97ca00"
          [] c = "yellow" -> "#dfb317"
          [] c = "orange" -> "#fe7d37"
          [] c = "red" -> "#e05d44"
          [] c = "lightgrey" -> "#9f9f9f"
          [] c = "blue" -> "#007ec6"]

\* A variant of the lookup that leaves the color name as it is.
ColorMapGet_name(c) == c

\* color_map.get(color, color)
ColorMapGet(c) == IF c \in DOMAIN color_map THEN color_map[c] ELSE c

\* The elements of a document.
Stop(offset, stop_color, opacity) ==
    [offset |-> offset, stop_color |-> stop_color, stop_opacity |-> opacity]
Rect(xpos, width, height, fill) ==
    [x |-> xpos, width |-> width, height |-> height, fill |-> fill]
ClipPath(width, height, rx) ==
    [id |-> "r", width |-> width, height |-> height, rx |-> rx, fill |-> "#fff"]
Text(hidden, xpos, ypos, fill, content) ==
    [aria_hidden |-> hidden, x |-> xpos, y |-> ypos, fill |-> fill,
     content |-> content]
Label(title, text) == title \o <<":", " ">> \o text

\* The SVG document of the flat style.
_flat_badge_template(title, text, c) ==
    LET badge_color == ColorMapGet(c)
        title_width == _calculate_text_width(title, 11)
        text_width  == _calculate_text_width(text, 11)
        total_width == title_width + text_width + 20
        title_x     == (title_width \div 2) + 6
        text_x      == title_width + (text_width \div 2) + 10
    IN  [svg |-> [width |-> total_width, height |-> 20,
                  aria_label |-> Label(title, text)],
         title |-> Label(title, text),
         linearGradient |-> <<[id |-> "s",
                               stops |-> <<Stop("0", "#bbb", ".1"),
                                           Stop("1", "", ".1")>>]>>,
         clipPath |-> <<ClipPath(total_width, 20, 3)>>,
         rects |-> <<Rect(0, title_width + 10, 20, "#555"),
                     Rect(title_width + 10, text_width + 10, 20, badge_color),
                     Rect(0, total_width, 20, "url(#s)")>>,
         font_size |-> 110,
         texts |-> <<Text(TRUE, title_x * 10, 150, "#010101", title),
                     Text(FALSE, title_x * 10, 140, "#fff", title),
                     Text(TRUE, text_x * 10, 150, "#010101", text),
                     Text(FALSE, text_x * 10, 140, "#fff", text)>>]

\* The SVG document of the plastic style.
_plastic_badge_template(title, text, c) ==
    LET badge_color == ColorMapGet(c)
        title_width == _calculate_text_width(title, 11)
        text_width  == _calculate_text_width(text, 11)
        total_width == title_width + text_width + 20
        title_x     == (title_width \div 2) + 6
        text_x      == title_width + (text_width \div 2) + 10
    IN  [svg |-> [width |-> total_width, height |-> 18,
                  aria_label |-> Label(title, text)],
         title |-> Label(title, text),
         linearGradient |-> <<[id |-> "s",
                               stops |-> <<Stop("0", "#fff", ".7"),
                                           Stop(".1", "#aaa", ".1"),
                                           Stop(".9", "#000", ".3"),
                                           Stop("1", "#000", ".5")>>]>>,
         clipPath |-> <<ClipPath(total_width, 18, 4)>>,
         rects |-> <<Rect(0, title_width + 10, 18, "#555"),
                     Rect(title_width + 10, text_width + 10, 18, badge_color),
                     Rect(0, total_width, 18, "url(#s)")>>,
         font_size |-> 110,
         texts |-> <<Text(TRUE, title_x * 10, 140, "#010101", title),
                     Text(FALSE, title_x * 10, 130, "#fff", title),
                     Text(TRUE, text_x * 10, 140, "#010101", text),
                     Text(FALSE, text_x * 10, 130, "#fff", text)>>]

\* A variant of the for-the-badge template whose title element and
\* aria-label keep the strings as supplied.
_for_the_badge_template_mixed(title, text, c) ==
    LET badge_color == ColorMapGet(c)
        title_upper == upper(title)
        text_upper  == upper(text)
        title_width == _calculate_text_width(title_upper, 12)
        text_width  == _calculate_text_width(text_upper, 12)
        total_width == title_width + text_width + 24
        title_x     == (title_width \div 2) + 8
        text_x      == title_width + (text_width \div 2) + 16
    IN  [svg |-> [width |-> total_width, height |-> 28,
                  aria_label |-> Label(title, text)],
         title |-> Label(title, text),
         linearGradient |-> <<>>,
         clipPath |-> <<>>,
         rects |-> <<Rect(0, title_width + 16, 28, "#555"),
                     Rect(title_width + 16, text_width + 8, 28, badge_color)>>,
         font_size |-> 100,
         texts |-> <<Text(FALSE, title_x * 10, 175, "#fff", title_upper),
                     Text(FALSE, text_x * 10, 175, "#fff", text_upper)>>]

\* The SVG document of the for-the-badge style.
_for_the_badge_template(title, text, c) ==
    LET badge_color == ColorMapGet(c)
        title_upper == upper(title)
        text_upper  == upper(text)
        title_width == _calculate_text_width(title_upper, 12)
        text_width  == _calculate_text_width(text_upper, 12)
        total_width == title_width + text_width + 24
        title_x     == (title_width \div 2) + 8
        text_x      == title_width + (text_width \div 2) + 16
    IN  [svg |-> [width |-> total_width, height |-> 28,
                  aria_label |-> Label(title_upper, text_upper)],
         title |-> Label(title_upper, text_upper),
         linearGradient |-> <<>>,
         clipPath |-> <<>>,
         rects |-> <<Rect(0, title_width + 16, 28, "#555"),
                     Rect(title_width + 16, text_width + 8, 28, badge_color)>>,
         font_size |-> 100,
         texts |-> <<Text(FALSE, title_x * 10, 175, "#fff", title_upper),
                     Text(FALSE, text_x * 10, 175, "#fff", text_upper)>>]

\* The styles __init__ registers.
badge_templates == {"flat", "plastic", "for-the-badge"}

\* A variant of the dispatch that indexes the templates: an unknown style
\* gets the plastic template.
_generate_svg_badge_plastic(title, text, c, style) ==
    CASE style = "flat" -> _flat_badge_template(title, text, c)
      [] style = "for-the-badge" -> _for_the_badge_template(title, text, c)
      [] OTHER -> _plastic_badge_template(title, text, c)

\* self.badge_templates.get(style, self.badge_templates["flat"])(title, text, color)
_generate_svg_badge(title, text, c, style) ==
    LET template_func == IF style \in badge_templates THEN style ELSE "flat"
    IN  CASE template_func = "flat" -> _flat_badge_template(title, text, c)
          [] template_func = "plastic" -> _plastic_badge_template(title, text, c)
          [] template_func = "for-the-badge" -> _for_the_badge_template(title, text, c)

\* A variant of the format that truncates: f"{int(coverage_percent)}%".
FormatPercent_truncated(coverage) == DigitsOf(FloatFloor(coverage)) \o <<"%">>

\* f"{coverage_percent:.0f}%"
FormatPercent(coverage) == DigitsOf(FloatRoundHalfEven(coverage)) \o <<"%">>

(***************************************************************************)
(* The command: main and the generate_badge it calls, a step per           *)
(* statement.  pc names the source line about to run.                      *)
(***************************************************************************)
Line(text, value) == [text |-> text, value |-> value]

Init ==
    /\ pc = "L301"
    /\ args = None
    /\ coverage_xml \in CoverageFiles
    /\ badge_svg \in OutputFiles
    /\ coverage_percent = None
    /\ color = None
    /\ coverage_text = None
    /\ svg_content = None
    /\ exc = None
    /\ stdout = <<>>
    /\ exit_code = None
    /\ ret = None

\* args = parser.parse_args(): the namespace of the accepted arguments.
ParseArgs ==
    /\ pc = "L301"
    /\ \E style \in StyleChoices, opt \in CommandOptions :
          args' = [coverage_file |-> CoveragePath, output |-> OutputPath,
                   style |-> style, title |-> opt.title,
                   min_good |-> opt.min_good, min_ok |-> opt.min_ok]
    /\ pc' = "L55"
    /\ UNCHANGED <<coverage_xml, badge_svg, coverage_percent, color,
                   coverage_text, svg_content, exc, stdout, exit_code, ret>>

\* A variant of the first step that opens the output before parsing.
GenerateBadgeParse_OpenFirst ==
    /\ pc = "L55"
    /\ LET r == _parse_coverage_xml(args.coverage_file)
       IN  IF r.raised = None
           THEN /\ coverage_percent' = r.value
                /\ pc' = "L58"
                /\ exc' = exc
           ELSE /\ exc' = r.raised
                /\ pc' = "L317"
                /\ coverage_percent' = coverage_percent
    /\ badge_svg' = IF badge_svg.writable
                    THEN [exists |-> TRUE, writable |-> TRUE, content |-> None,
                          opens |-> badge_svg.opens + 1]
                    ELSE badge_svg
    /\ UNCHANGED <<args, coverage_xml, color, coverage_text,
                   svg_content, stdout, exit_code, ret>>

\* coverage_percent = self._parse_coverage_xml(coverage_file); an exception
\* leaves generate_badge for main's except clause.
GenerateBadgeParse ==
    /\ pc = "L55"
    /\ LET r == _parse_coverage_xml(args.coverage_file)
       IN  IF r.raised = None
           THEN /\ coverage_percent' = r.value
                /\ pc' = "L58"
                /\ exc' = exc
           ELSE /\ exc' = r.raised
                /\ pc' = "L317"
                /\ coverage_percent' = coverage_percent
    /\ UNCHANGED <<args, coverage_xml, badge_svg, color, coverage_text,
                   svg_content, stdout, exit_code, ret>>

\* color = self._get_coverage_color(coverage_percent, min_good, min_ok)
GenerateBadgeColor ==
    /\ pc = "L58"
    /\ color' = Some(_get_coverage_color(coverage_percent[1], args.min_good,
                                         args.min_ok))
    /\ pc' = "L61"
    /\ UNCHANGED <<args, coverage_xml, badge_svg, coverage_percent,
                   coverage_text, svg_content, exc, stdout, exit_code, ret>>

\* coverage_text = f"{coverage_percent:.0f}%"
GenerateBadgeText ==
    /\ pc = "L61"
    /\ coverage_text' = Some(FormatPercent(coverage_percent[1]))
    /\ pc' = "L64"
    /\ UNCHANGED <<args, coverage_xml, badge_svg, coverage_percent, color,
                   svg_content, exc, stdout, exit_code, ret>>

\* svg_content = self._generate_svg_badge(title, coverage_text, color, style)
GenerateBadgeSvg ==
    /\ pc = "L64"
    /\ svg_content' = Some(_generate_svg_badge(args.title, coverage_text[1],
                                               color[1], args.style))
    /\ pc' = "L67"
    /\ UNCHANGED <<args, coverage_xml, badge_svg, coverage_percent, color,
                   coverage_text, exc, stdout, exit_code, ret>>

\* with open(output_file, "w") as f: f.write(svg_content); open raises when
\* the path cannot be written.
GenerateBadgeWrite ==
    /\ pc = "L67"
    /\ IF badge_svg.writable
       THEN /\ badge_svg' = [exists |-> TRUE, writable |-> TRUE,
                             content |-> svg_content,
                             opens |-> badge_svg.opens + 1]
            /\ pc' = "L70"
            /\ exc' = exc
       ELSE /\ exc' = Some(Exception("PermissionError", "", args.output,
                                     "Permission denied"))
            /\ pc' = "L317"
            /\ badge_svg' = badge_svg
    /\ UNCHANGED <<args, coverage_xml, coverage_percent, color, coverage_text,
                   svg_content, stdout, exit_code, ret>>

\* The two prints that end generate_badge.
GenerateBadgePrint ==
    /\ pc = "L70"
    /\ stdout' = stdout \o <<Line("Generated coverage badge: ", <<args.output>>),
                             Line("Coverage: ", <<coverage_text[1], color[1]>>)>>
    /\ pc' = "L314"
    /\ UNCHANGED <<args, coverage_xml, badge_svg, coverage_percent, color,
                   coverage_text, svg_content, exc, exit_code, ret>>

\* main after generate_badge returned: the success prints and return 0.
MainSuccess ==
    /\ pc = "L314"
    /\ stdout' = stdout \o <<Line("Coverage badge generated successfully!", <<>>),
                             Line("Output: ", <<args.output>>)>>
    /\ exit_code' = Some(0)
    /\ pc' = "exit"
    /\ UNCHANGED <<args, coverage_xml, badge_svg, coverage_percent, color,
                   coverage_text, svg_content, exc, ret>>

\* A variant of the except clause without its return 1: main falls through
\* to return 0.
MainExcept_fallthrough ==
    /\ pc = "L317"
    /\ stdout' = stdout \o <<[text |-> "Error generating coverage badge: ",
                              value |-> exc]>>
    /\ exit_code' = Some(0)
    /\ pc' = "exit"
    /\ UNCHANGED <<args, coverage_xml, badge_svg, coverage_percent, color,
                   coverage_text, svg_content, exc, ret>>

\* main's except Exception clause: print the error and return 1.
MainExcept ==
    /\ pc = "L317"
    /\ stdout' = stdout \o <<Line("Error generating coverage badge: ", exc)>>
    /\ exit_code' = Some(1)
    /\ pc' = "exit"
    /\ UNCHANGED <<args, coverage_xml, badge_svg, coverage_percent, color,
                   coverage_text, svg_content, exc, ret>>

Next ==
    \/ ParseArgs
    \/ GenerateBadgeParse
    \/ GenerateBadgeColor
    \/ GenerateBadgeText
    \/ GenerateBadgeSvg
    \/ GenerateBadgeWrite
    \/ GenerateBadgePrint
    \/ MainSuccess
    \/ MainExcept

Spec == Init /\ [][Next]_vars

(***************************************************************************)
(* The generator's pure methods called directly, on drawn arguments.       *)
(***************************************************************************)
NumericRates == {Rate095, Rate045, Rate08, Rate06, Rate0796, Rate0575, Rate0}
UnitThresholds == {0, 57, 58, 60, 80, 100}
UnitCoverages ==
    {FloatOfInt(n) : n \in UnitThresholds}
    \cup {FloatMulInt(float(r).value[1], 100) : r \in NumericRates}
UnitTitles == {TitleOfLen(n) : n \in 0..MaxTitleLen}
UnitTexts == {<<"9", "5", "%">>, <<"M", "a", "eszett", "e">>, TitleOfLen(MaxTitleLen)}
UnitColors == DOMAIN color_map \cup {"#ff69b4"}
UnitStyles == badge_templates \cup {"social", ""}

InitUnit ==
    /\ pc = "call"
    /\ \/ \E coverage \in UnitCoverages, min_good \in UnitThresholds,
             min_ok \in UnitThresholds :
             args = [op |-> "_get_coverage_color", coverage |-> coverage,
                     min_good |-> min_good, min_ok |-> min_ok]
       \/ \E title \in UnitTitles, text \in UnitTexts, c \in UnitColors,
             style \in UnitStyles :
             args = [op |-> "_generate_svg_badge", title |-> title,
                     text |-> text, color |-> c, style |-> style]
    /\ coverage_xml = NoDocument("missing")
    /\ badge_svg = [exists |-> FALSE, writable |-> TRUE, content |-> None,
                    opens |-> 0]
    /\ coverage_percent = None
    /\ color = None
    /\ coverage_text = None
    /\ svg_content = None
    /\ exc = None
    /\ stdout = <<>>
    /\ exit_code = None
    /\ ret = None

CallGetCoverageColor ==
    /\ pc = "call"
    /\ args.op = "_get_coverage_color"
    /\ ret' = Some(_get_coverage_color(args.coverage, args.min_good, args.min_ok))
    /\ pc' = "returned"
    /\ UNCHANGED <<args, coverage_xml, badge_svg, coverage_percent, color,
                   coverage_text, svg_content, exc, stdout, exit_code>>

CallGenerateSvgBadge ==
    /\ pc = "call"
    /\ args.op = "_generate_svg_badge"
    /\ ret' = Some(_generate_svg_badge(args.title, args.text, args.color, args.style))
    /\ pc' = "returned"
    /\ UNCHANGED <<args, coverage_xml, badge_svg, coverage_percent, color,
                   coverage_text, svg_content, exc, stdout, exit_code>>

NextUnit ==
    \/ CallGetCoverageColor
    \/ CallGenerateSvgBadge

SpecUnit == InitUnit /\ [][NextUnit]_vars

(***************************************************************************)
(* src/python_cicd_demo/main.py: add, subtract and calculate.              *)
(*                                                                         *)
(* A Python number is an int or a float, kept as a count of halves: the    *)
(* int n is 2n halves, the float 1.5 is 3 halves.  Sums and differences of *)
(* such small values are exact in binary64, so + and - on floats are the   *)
(* arithmetic on halves; the result is an int only when both are ints.     *)
(***************************************************************************)
PyInt(n) == [kind |-> "int", halves |-> 2 * n]
PyFloat(h) == [kind |-> "float", halves |-> h]
Numbers ==
    {PyInt(n) : n \in -MaxOperand..MaxOperand}
    \cup {PyFloat(h) : h \in -(2 * MaxOperand)..(2 * MaxOperand)}

\* The type of the result of a binary arithmetic operator.
ResultKind(a, b) ==
    IF a.kind = "int" /\ b.kind = "int" THEN "int" ELSE "float"

add(a, b) == [kind |-> ResultKind(a, b), halves |-> a.halves + b.halves]

subtract(a, b) == [kind |-> ResultKind(a, b), halves |-> a.halves - b.halves]

\* The dict of line 76, by its keys.
operations == {"add", "subtract"}

\* ValueError(f"Unsupported operation: {operation}"): the message is the
\* literal followed by the operation.
ValueError(operation) ==
    [type |-> "ValueError", message |-> <<"Unsupported operation: ", operation>>]

Raised(error) == [raised |-> Some(error), value |-> None]
Returned(value) == [raised |-> None, value |-> Some(value)]

\* calculate with a fallback to add instead of the raise.
calculate_lenient(operation, a, b) ==
    IF operation = "subtract"
    THEN Returned(subtract(a, b))
    ELSE Returned(add(a, b))

calculate(operation, a, b) ==
    IF operation \notin operations
    THEN Raised(ValueError(operation))
    ELSE IF operation = "add"
         THEN Returned(add(a, b))
         ELSE Returned(subtract(a, b))

\* Operation strings: the two supported ones, the two of the tests, one that
\* differs from a supported one only in case, and the empty string.
OperationStrings == {"add", "subtract", "multiply", "divide", "ADD", ""}

InitCalc ==
    /\ pc = "call"
    /\ \/ \E f \in {"add", "subtract"}, a \in Numbers, b \in Numbers :
             args = [op |-> f, a |-> a, b |-> b]
       \/ \E operation \in OperationStrings, a \in Numbers, b \in Numbers :
             args = [op |-> "calculate", operation |-> operation,
                     a |-> a, b |-> b]
    /\ coverage_xml = NoDocument("missing")
    /\ badge_svg = [exists |-> FALSE, writable |-> TRUE, content |-> None,
                    opens |-> 0]
    /\ coverage_percent = None
    /\ color = None
    /\ coverage_text = None
    /\ svg_content = None
    /\ exc = None
    /\ stdout = <<>>
    /\ exit_code = None
    /\ ret = None

CallAdd ==
    /\ pc = "call"
    /\ args.op = "add"
    /\ ret' = Some(add(args.a, args.b))
    /\ pc' = "returned"
    /\ UNCHANGED <<args, coverage_xml, badge_svg, coverage_percent, color,
                   coverage_text, svg_content, exc, stdout, exit_code>>

CallSubtract ==
    /\ pc = "call"
    /\ args.op = "subtract"
    /\ ret' = Some(subtract(args.a, args.b))
    /\ pc' = "returned"
    /\ UNCHANGED <<args, coverage_xml, badge_svg, coverage_percent, color,
                   coverage_text, svg_content, exc, stdout, exit_code>>

\* A call of calculate: it returns a value, or an exception leaves it.
CallCalculate ==
    /\ pc = "call"
    /\ args.op = "calculate"
    /\ LET r == calculate(args.operation, args.a, args.b)
       IN  /\ ret' = r.value
           /\ exc' = r.raised
           /\ pc' = IF r.raised = None THEN "returned" ELSE "raised"
    /\ UNCHANGED <<args, coverage_xml, badge_svg, coverage_percent, color,
                   coverage_text, svg_content, stdout, exit_code>>

NextCalc ==
    \/ CallAdd
    \/ CallSubtract
    \/ CallCalculate

SpecCalc == InitCalc /\ [][NextCalc]_vars

(***************************************************************************)
(* Properties.                                                             *)
(***************************************************************************)
ColorReturned == pc = "returned" /\ args.op = "_get_coverage_color"
SvgReturned == pc = "returned" /\ args.op = "_generate_svg_badge"

Extracted == pc \notin {"L301", "L55", "call", "returned"}
\* Line 55 has just run: its value is assigned or its exception is
\* on its way to main (which a failed write at line 67 reaches as well).
JustExtracted == pc \in {"L58", "L317"}
\* The extraction stage raised.
ExtractionFailed == Extracted /\ exc # None /\ coverage_percent = None
\* Whether an attribute is present and a decimal float() reads.
IsDecimal(attr) == attr # None /\ float(attr[1]).raised = None
\* The integer part of 100 * r for the decimal text r, in exact arithmetic.
ExactPercentFloor(r) ==
    LET point == IF "." \in Range(r) THEN IndexOf(".", r) ELSE Len(r)
        digits == SelectSeq(r, LAMBDA ch : ch # ".")
    IN  (100 * DigitsValue(digits)) \div Power10(Len(r) - point)
\* v is the float 100 * r: the rounded product, at most one unit in the
\* last place from the exact percentage.
IsPercentOf(v, r) ==
    /\ v = Some(FloatMulInt(float(r).value[1], 100))
    /\ FloatFloor(v[1]) \in {ExactPercentFloor(r) - 1, ExactPercentFloor(r)}
    /\ FloatRoundHalfEven(FloatMulInt(v[1], 10)) \in
          {10 * ExactPercentFloor(r) + k : k \in 0..10}

\* C2: for a parsed report, _parse_coverage_xml returns 100 x the root's
\* line-rate when the root carries one, whatever the packages hold; when
\* the root carries none it returns 100 x the line-rate of the first package
\* in document order that carries the attribute, whatever later packages hold.
C2_RootThenFirstPackage ==
    (JustExtracted /\ coverage_xml.kind = "xml") =>
        LET root == coverage_xml.root
            packages == coverage_xml.packages
            carrying == {i \in 1..Len(packages) : packages[i] # None}
            first == CHOOSE i \in carrying : \A j \in carrying : i <= j
        IN  /\ IsDecimal(root) => IsPercentOf(coverage_percent, root[1])
            /\ (root = None /\ carrying # {} /\ IsDecimal(packages[first]))
                  => IsPercentOf(coverage_percent, packages[first][1])

\* C2 witness: no root line-rate, two packages with different rates, and
\* the first one's rate returned.
C2_Witness ==
    /\ Extracted
    /\ coverage_xml = Document(None, <<Some(Rate045), Some(Rate095)>>)
    /\ coverage_percent = Some(FloatOfInt(45))

\* C3: extraction fails whenever the file is missing or unreadable, the XML
\* unparsable, or no line-rate attribute of the root or of a package is a
\* decimal; and every failure of extraction is a RuntimeError whose message
\* carries the source path and the underlying cause.
C3_SingleErrorKind ==
    Extracted =>
        LET unresolvable ==
                \/ coverage_xml.kind # "xml"
                \/ /\ ~IsDecimal(coverage_xml.root)
                   /\ \A i \in 1..Len(coverage_xml.packages) :
                         ~IsDecimal(coverage_xml.packages[i])
        IN  /\ unresolvable => ExtractionFailed
            /\ ExtractionFailed =>
                  /\ exc[1].type = "RuntimeError"
                  /\ exc[1].text = "Error parsing coverage file"
                  /\ exc[1].path = args.coverage_file
                  /\ exc[1].cause # ""

\* Whether a line starting with the given text was printed.
Printed(text) == \E i \in 1..Len(stdout) : stdout[i].text = text

\* C4: when generate_badge fails in the extraction stage the output file is
\* untouched (not created, not truncated, not written) and no confirmation
\* is printed; the output is opened for writing only once the percentage,
\* the color and the document have all been computed.
C4_OutputUntouched ==
    /\ ExtractionFailed =>
          /\ badge_svg \in OutputFiles
          /\ ~Printed("Generated coverage badge: ")
          /\ ~Printed("Coverage badge generated successfully!")
    /\ badge_svg.opens > 0 =>
          /\ coverage_percent # None
          /\ color # None
          /\ coverage_text # None
          /\ svg_content # None
          /\ badge_svg.content = svg_content

\* C4 witness: no line-rate on the root nor on any package, the command has
\* ended and the stale output file is as it was.
C4_Witness ==
    /\ pc = "exit"
    /\ coverage_xml = Document(None, <<None, None>>)
    /\ exc # None
    /\ exc[1].cause = "Could not find coverage data in XML"
    /\ badge_svg = [exists |-> TRUE, writable |-> TRUE, content |-> None,
                    opens |-> 0]

\* The fixed hex color of each tier.
TierHex(tier) ==
    CASE tier = "brightgreen" -> "#4c1"
      [] tier = "yellow" -> "#dfb317"
      [] tier = "red" -> "#e05d44"
\* The tier of a percentage p under the thresholds.
TierOf(p, min_good, min_ok) ==
    IF FloatFloor(p) >= min_good THEN "brightgreen"
    ELSE IF FloatFloor(p) >= min_ok THEN "yellow"
    ELSE "red"
\* Whether text is the integer nearest to p followed by a percent sign.
IsRoundedPercent(text, p) ==
    /\ Len(text) >= 2
    /\ text[Len(text)] = "%"
    /\ LET digits == SubSeq(text, 1, Len(text) - 1)
           n == DigitsValue(digits)
           twice == FloatMulInt(p, 2)
       IN  /\ Range(digits) \subseteq Range(DigitChars)
           /\ digits = DigitsOf(n)
           /\ FloatFloor(twice) >= 2 * n - 1
           /\ \/ FloatFloor(twice) < 2 * n + 1
              \/ FloatFloor(twice) = 2 * n + 1 /\ FloatIsInt(twice)
\* The contents of the text elements that are not hidden shadows.
VisibleTexts(doc) ==
    {doc.texts[i].content : i \in {j \in 1..Len(doc.texts) : ~doc.texts[j].aria_hidden}}
\* The badge was written to the output file.
Written == Extracted /\ badge_svg.content # None
\* What a written badge shows, given the text it shows for the title.
ShowsCoverage(doc, shown_title) ==
    /\ VisibleTexts(doc) = {shown_title, coverage_text[1]}
    /\ IsRoundedPercent(coverage_text[1], coverage_percent[1])
    /\ doc.rects[2].fill =
          TierHex(TierOf(coverage_percent[1], args.min_good, args.min_ok))
    /\ (coverage_xml.root = Some(Rate095) /\ args.min_good = 80) =>
          /\ coverage_text[1] = <<"9", "5", "%">>
          /\ doc.rects[2].fill = "#4c1"
    /\ coverage_xml.root = Some(Rate045) => doc.rects[2].fill = "#e05d44"

\* C5 as stated: a written badge's visible text nodes are the title and the
\* percentage rounded to zero decimals with a percent sign, and the value
\* rectangle is filled with the hex color of the tier of the unrounded
\* percentage.
C5_BadgeShowsTitle ==
    Written => ShowsCoverage(badge_svg.content[1], args.title)

\* C5 amended: the same, the title shown being the upper-cased title when
\* the style is for-the-badge and the title itself otherwise.
C5_BadgeShowsStyledTitle ==
    Written =>
        ShowsCoverage(badge_svg.content[1],
                      IF args.style = "for-the-badge" THEN upper(args.title)
                      ELSE args.title)

\* C5 witness: line-rate 0.796 shows as 80% on a yellow value rectangle.
C5_Witness ==
    /\ Written
    /\ coverage_xml.root = Some(Rate0796)
    /\ args.min_good = 80
    /\ args.style = "for-the-badge"
    /\ coverage_text = Some(<<"8", "0", "%">>)
    /\ badge_svg.content[1].rects[2].fill = "#dfb317"

\* C10: main returns 0 exactly when generate_badge ran to its end (the badge
\* written, its confirmation printed, nothing raised); when extraction
\* fails, the exception _parse_coverage_xml raised reaches main unchanged,
\* main prints it and returns 1.
C10_ExitCode ==
    /\ pc = "exit" =>
          /\ exit_code \in {Some(0), Some(1)}
          /\ exit_code = Some(0) <=>
                /\ exc = None
                /\ badge_svg.content = svg_content
                /\ svg_content # None
                /\ Printed("Generated coverage badge: ")
          /\ ExtractionFailed =>
                /\ exit_code = Some(1)
                /\ stdout = <<Line("Error generating coverage badge: ", exc)>>
    /\ JustExtracted =>
          LET raised == _parse_coverage_xml(args.coverage_file).raised
          IN  /\ raised # None => ExtractionFailed
              /\ ExtractionFailed => exc = raised

\* C10 witness: a missing coverage file ends the command with exit code 1.
C10_Witness ==
    /\ pc = "exit"
    /\ coverage_xml.kind = "missing"
    /\ exit_code = Some(1)
    /\ exc[1].type = "RuntimeError"
    /\ Len(stdout) = 1

\* The hex color a color name resolves to; another string is used as is.
ResolvedHex(c) ==
    CASE c = "brightgreen" -> "#4c1"
      [] c = "green" -> "#97ca00"
      [] c = "yellow" -> "#dfb317"
      [] c = "orange" -> "#fe7d37"
      [] c = "red" -> "#e05d44"
      [] c = "lightgrey" -> "#9f9f9f"
      [] c = "blue" -> "#007ec6"
      [] OTHER -> c
\* The rectangles of a document that are not the gradient overlay.
FillRects(doc) == SelectSeq(doc.rects, LAMBDA r : r.fill # "url(#s)")
\* The two fill rectangles: the label's in #555, the value's in the color.
TwoFillRects(doc) ==
    /\ Len(FillRects(doc)) = 2
    /\ FillRects(doc)[1].fill = "#555"
    /\ FillRects(doc)[2].fill = ResolvedHex(args.color)
\* A gradient, a clip path, and a shadow and a foreground text element for
\* the label and for the value.
GradientClipAndFourTexts(doc) ==
    /\ Len(doc.linearGradient) = 1
    /\ Len(doc.clipPath) = 1
    /\ Len(doc.texts) = 4
    /\ doc.texts[1].aria_hidden /\ ~doc.texts[2].aria_hidden
    /\ doc.texts[3].aria_hidden /\ ~doc.texts[4].aria_hidden
    /\ doc.texts[1].content = doc.texts[2].content
    /\ doc.texts[3].content = doc.texts[4].content

\* C6 as stated: in every style the document holds a linear gradient, a
\* clip path, the two fill rectangles and four text elements.
C6_AllStylesFullStructure ==
    SvgReturned =>
        /\ TwoFillRects(ret[1])
        /\ GradientClipAndFourTexts(ret[1])

\* C6 amended: the flat and plastic documents hold a linear gradient, a clip
\* path, the two fill rectangles and four text elements; the for-the-badge
\* document holds the two fill rectangles and two text elements (the label
\* and the value, no shadows), and neither a gradient nor a clip path.
C6_StructurePerStyle ==
    SvgReturned =>
        /\ TwoFillRects(ret[1])
        /\ args.style # "for-the-badge" => GradientClipAndFourTexts(ret[1])
        /\ args.style = "for-the-badge" =>
              /\ ret[1].linearGradient = <<>>
              /\ ret[1].clipPath = <<>>
              /\ Len(ret[1].rects) = 2
              /\ Len(ret[1].texts) = 2
              /\ \A i \in 1..2 : ~ret[1].texts[i].aria_hidden

\* C6 witness: a plastic badge in a named color, with its four text elements.
C6_Witness ==
    /\ SvgReturned
    /\ args.style = "plastic"
    /\ args.color = "orange"
    /\ Len(ret[1].texts) = 4
    /\ ret[1].rects[2].fill = "#fe7d37"

\* The width the claim gives a string of n characters at a font size:
\* n * font_size * 0.6 truncated, that is floor(6 * font_size * n / 10).
ClaimedWidth(n, font_size) == (6 * font_size * n) \div 10

\* C7: the document's width is w(title) + w(value) + P, with w(s) =
\* floor(66 * len / 10) and P = 20 for flat and plastic, w(s) =
\* floor(72 * len / 10) and P = 24 for for-the-badge (on the upper-cased
\* strings); the label and value rectangle widths add up to that width.
C7_WidthFormula ==
    SvgReturned =>
        LET doc == ret[1]
            ftb == args.style = "for-the-badge"
            title == IF ftb THEN upper(args.title) ELSE args.title
            text == IF ftb THEN upper(args.text) ELSE args.text
            font_size == IF ftb THEN 12 ELSE 11
            padding == IF ftb THEN 24 ELSE 20
        IN  /\ doc.svg.width = ClaimedWidth(Len(title), font_size)
                               + ClaimedWidth(Len(text), font_size) + padding
            /\ doc.rects[1].width + doc.rects[2].width = doc.svg.width

\* C8: a for-the-badge document shows the upper-cased label and value in
\* its text elements, its title element and its aria-label, and measures
\* the upper-cased strings; flat and plastic show the strings as supplied.
C8_UpperCased ==
    SvgReturned =>
        LET doc == ret[1]
            cased == Range(LowerChars) \cup {"eszett"}
            shown == UNION ({Range(doc.texts[i].content) : i \in 1..Len(doc.texts)}
                            \cup {Range(doc.title), Range(doc.svg.aria_label)})
        IN  IF args.style = "for-the-badge"
            THEN /\ shown \cap cased = {}
                 /\ doc.texts[1].content = upper(args.title)
                 /\ doc.texts[2].content = upper(args.text)
                 /\ doc.title = Label(upper(args.title), upper(args.text))
                 /\ doc.svg.aria_label = doc.title
                 /\ doc.rects[1].width =
                       _calculate_text_width(upper(args.title), 12) + 16
                 /\ doc.rects[2].width =
                       _calculate_text_width(upper(args.text), 12) + 8
            ELSE /\ \A i \in {1, 2} : doc.texts[i].content = args.title
                 /\ \A i \in {3, 4} : doc.texts[i].content = args.text
                 /\ doc.title = Label(args.title, args.text)
                 /\ doc.svg.aria_label = doc.title

\* C8 witness: a mixed-case value with a sharp s, one character longer once
\* upper-cased, in a for-the-badge document.
C8_Witness ==
    /\ SvgReturned
    /\ args.style = "for-the-badge"
    /\ args.text = <<"M", "a", "eszett", "e">>
    /\ ret[1].texts[2].content = <<"M", "A", "S", "S", "E">>
    /\ ret[1].rects[2].width = 44

\* C9: for a style that is not flat, plastic or for-the-badge,
\* _generate_svg_badge returns the document of the flat style.
C9_UnknownStyleIsFlat ==
    (SvgReturned /\ args.style \notin {"flat", "plastic", "for-the-badge"}) =>
        /\ ret = Some(_flat_badge_template(args.title, args.text, args.color))
        /\ ret[1].svg.height = 20

\* C9 witness: the style "social" rendered as a flat badge.
C9_Witness ==
    /\ SvgReturned
    /\ args.style = "social"
    /\ args.title = TitleOfLen(8)
    /\ ret[1].svg.height = 20
    /\ Len(ret[1].texts) = 4

CalculateDone == pc \in {"returned", "raised"} /\ args.op = "calculate"

\* C11: calculate("add", a, b) returns add(a, b), the sum a + b, and
\* calculate("subtract", a, b) returns subtract(a, b), the difference a - b;
\* for every other operation string a ValueError with the message
\* "Unsupported operation: <operation>" leaves calculate and nothing is
\* returned.  A direct call of add or subtract returns the same sum or
\* difference.
C11_CalculateDispatch ==
    /\ (CalculateDone /\ args.operation = "add") =>
           /\ pc = "returned"
           /\ exc = None
           /\ ret = Some(add(args.a, args.b))
           /\ ret[1].halves = args.a.halves + args.b.halves
    /\ (CalculateDone /\ args.operation = "subtract") =>
           /\ pc = "returned"
           /\ exc = None
           /\ ret = Some(subtract(args.a, args.b))
           /\ ret[1].halves = args.a.halves - args.b.halves
    /\ (CalculateDone /\ args.operation \notin {"add", "subtract"}) =>
           /\ pc = "raised"
           /\ ret = None
           /\ exc # None
           /\ exc[1].type = "ValueError"
           /\ exc[1].message = <<"Unsupported operation: ", args.operation>>
    /\ (pc = "returned" /\ args.op = "add") =>
           ret[1].halves = args.a.halves + args.b.halves
    /\ (pc = "returned" /\ args.op = "subtract") =>
           ret[1].halves = args.a.halves - args.b.halves

\* C11 witness: calculate("multiply", 2, 1.5) left by the ValueError
\* "Unsupported operation: multiply", nothing returned.
C11_Witness ==
    /\ pc = "raised"
    /\ args.op = "calculate"
    /\ args.operation = "multiply"
    /\ args.a = PyInt(2)
    /\ args.b = PyFloat(3)
    /\ exc = Some(ValueError("multiply"))
    /\ ret = None
====
